---- MODULE Spec2Model ----
(***************************************************************************)
(* Lotion kanban board: the drag-and-drop reordering of MainApp.tsx, its   *)
(* optimistic update of the in-memory task list, the batch write to the   *)
(* remote store and the live-feed snapshot that overwrites the list.      *)
(*                                                                         *)
(* Handlers run one at a time on the event loop. A handler sees the task  *)
(* list of the current state: every state update is rendered before the   *)
(* next event is handled. An `await` splits a handler in two actions, the *)
(* part up to the call and the part after the promise settles.            *)
(*                                                                         *)
(* The remote store holds the task documents of the active project. A     *)
(* snapshot delivers the store as it is at that moment; batches and       *)
(* deletes that are awaited settle in any order, each succeeding or       *)
(* failing. The toast expiry timer is not modelled: `notifications` keeps *)
(* every notification that was recorded. A commit applies the whole batch *)
(* or nothing (writeBatch of the store's client library).                 *)
(*                                                                         *)
(* A task record is id, column and order; the title field is kept by id in *)
(* `titles` (in memory) and `remoteTitles` (store). imageUrl is written by *)
(* the same updateTask as the title and is not kept.                      *)
(*                                                                         *)
(* Spec is the drag and drop with the live feed, SpecAll adds the delete   *)
(* flow, SpecForm has every handler on a store of one task, FairSpec is    *)
(* Spec on one store with the fairness of the listeners.                  *)
(* SpecAdd is Spec with the add form on a store of one task, SpecSwitch   *)
(* is Spec on a store of two tasks with the selection of a second project. *)
(*                                                                         *)
(* Indices are 0-based wherever the source's are (findIndex, indexOf,     *)
(* splice, arrayMove); TLA+ sequences are 1-based, so position k of a     *)
(* sequence is the source's index k-1.                                     *)
(***************************************************************************)
EXTENDS Integers, Sequences, FiniteSets, TLC

\* ---- bounds of the model ------------------------------------------------
MaxTasks == 3       \* task ids are 1..MaxTasks
MaxWrites == 2      \* remote writes issued: batches, deleteDoc, addDoc, updateDoc

\* ---- program constants --------------------------------------------------
GAP == 100

Ids == 1..MaxTasks

\* const columns: Task["column"][] = ["Not Started", "In Progress", "Done"]
ColumnSeq == <<"Not Started", "In Progress", "Done">>

Columns == {ColumnSeq[k] : k \in 1..Len(ColumnSeq)}

\* `undefined` target column
NoColumn == ""

\* `null` / `undefined` task (activeTask state, tasks.find miss)
NoTask == [id |-> 0, column |-> NoColumn, order |-> 0]

\* `null` activeProjectId, and the one project of the user
NoProject == "null"

FirstProject == "p1"

\* titles: the one the tasks start with and the add form is given, the one
\* an edit saves, and what else the add form's input may hold
FirstTitle == "a"

EditedTitle == "b"

InputTitles == {"", " a"}

\* String.prototype.trim on the input titles
Trim(title) ==
    IF title = " a" THEN "a" ELSE title

\* the drop target of a drag-end event: absent, a column droppable
\* (data.current.type = "column") or a sortable task card (id = task id)
NoOver == [type |-> "none", column |-> NoColumn, id |-> 0]

ColumnOver(c) == [type |-> "column", column |-> c, id |-> 0]

TaskOver(i) == [type |-> "task", column |-> NoColumn, id |-> i]

Overs == {NoOver} \cup {ColumnOver(c) : c \in Columns} \cup {TaskOver(i) : i \in Ids}

VARIABLES
    tasks,            \* useState<Task[]>: the in-memory task list
    activeTask,       \* useState<Task | null>: the drag session state
    notifications,    \* useState<Notification[]>
    taskToDelete,     \* useState<string | null> (0 = null)
    isDeleteModalOpen,
    activeProjectId,  \* useState<string | null>
    remote,           \* the documents of the project's tasks collection
    inflight,         \* batches whose commit() is awaited
    deleting,         \* deleteDoc calls that are awaited
    dragging,         \* id of the card the drag gesture picked up (0 = none)
    writes,           \* remote writes issued so far (bounds the run)
    activeColumn,     \* useState<Task["column"]>: the column of the add form
    newTaskTitle,     \* useState<string>: the input of the add form
    adding,           \* addDoc calls that are awaited
    editing,          \* updateDoc calls that are awaited
    titles,           \* the title field of the in-memory tasks, by id
    remoteTitles,     \* the title field of the documents, by id
    last              \* history: the last handler that ran, and what it saw

\* the state of the add form and of the single-document writes
formVars == <<activeColumn, newTaskTitle, adding, editing, titles, remoteTitles>>

vars == <<tasks, activeTask, notifications, taskToDelete, isDeleteModalOpen,
          activeProjectId, remote, inflight, deleting, dragging, writes, last,
          activeColumn, newTaskTitle, adding, editing, titles, remoteTitles>>

\* ---- array helpers (0-based indices as in the source) ---------------------

\* Array.prototype.findIndex / indexOf on ids: -1 when absent
IndexOfId(ts, i) ==
    IF \E k \in 1..Len(ts) : ts[k].id = i
    THEN (CHOOSE k \in 1..Len(ts) : ts[k].id = i /\ \A j \in 1..(k-1) : ts[j].id # i) - 1
    ELSE -1

\* tasks.find((t) => t.id === id)
FindTask(ts, i) == IF IndexOfId(ts, i) >= 0 THEN ts[IndexOfId(ts, i) + 1] ELSE NoTask

\* tasks.filter((t) => t.column === c)
FilterColumn(ts, c) == SelectSeq(ts, LAMBDA t : t.column = c)

\* array.splice(index, 0, item); an index beyond the end appends
SpliceInsert(array, index, item) ==
    LET at == IF index > Len(array) THEN Len(array) ELSE index
    IN SubSeq(array, 1, at) \o <<item>> \o SubSeq(array, at + 1, Len(array))

\* array.splice(index, 1)
SpliceRemove(array, index) ==
    SubSeq(array, 1, index) \o SubSeq(array, index + 2, Len(array))

\* the items at `from` and `to` exchanged
ArrayMoveSwap(array, from, to) ==
    [k \in 1..Len(array) |->
        IF k = from + 1 THEN array[to + 1]
        ELSE IF k = to + 1 THEN array[from + 1] ELSE array[k]]

\* arrayMove of @dnd-kit/sortable: remove the item at `from`, insert it at `to`
ArrayMove(array, from, to) ==
    LET at == IF to < 0 THEN Len(array) + to ELSE to
    IN SpliceInsert(SpliceRemove(array, from), at, array[from + 1])

\* index * 100: the first task of the column gets 0
NewOrderFromZero(index) == index * GAP

\* index * 100 + 100
NewOrder(index) == index * GAP + GAP

\* ---- the reorder planner (handleDragEnd, steps 1-3) ------------------------

\* a drop target that is not found falls back to the first column
TargetColumnDefaults(ts, over) ==
    IF over.type = "column"
    THEN over.column
    ELSE IF FindTask(ts, over.id) # NoTask
         THEN FindTask(ts, over.id).column ELSE ColumnSeq[1]

\* step 1: the column of the drop target, NoColumn when it cannot be resolved
TargetColumn(ts, over) ==
    IF over.type = "column"
    THEN over.column
    ELSE IF FindTask(ts, over.id) # NoTask THEN FindTask(ts, over.id).column ELSE NoColumn

\* the active task always appended to the target column
InsertIndexAppends(targetColumnTasks, over) == Len(targetColumnTasks)

\* the active task spliced in after the task it is dropped on
InsertIndexAfterOver(targetColumnTasks, over) ==
    IF over.type = "column"
    THEN Len(targetColumnTasks)
    ELSE IF IndexOfId(targetColumnTasks, over.id) >= 0
         THEN IndexOfId(targetColumnTasks, over.id) + 1
         ELSE Len(targetColumnTasks)

\* cross-column move: where the active task is spliced into the target column
InsertIndex(targetColumnTasks, over) ==
    IF over.type = "column"
    THEN Len(targetColumnTasks)
    ELSE IF IndexOfId(targetColumnTasks, over.id) >= 0
         THEN IndexOfId(targetColumnTasks, over.id)
         ELSE Len(targetColumnTasks)

\* a drop on the column takes the length, not the last index
NewIndexAfterLast(targetColumnTasks, over) ==
    IF over.type = "column"
    THEN Len(targetColumnTasks)
    ELSE IndexOfId(targetColumnTasks, over.id)

\* same-column reorder: the index the active task is moved to
NewIndex(targetColumnTasks, over) ==
    IF over.type = "column"
    THEN Len(targetColumnTasks) - 1
    ELSE IndexOfId(targetColumnTasks, over.id)

\* the early returns of handleDragEnd: TRUE when the handler reaches step 4
Applies(ts, active, over) ==
    /\ over # NoOver
    /\ FindTask(ts, active) # NoTask
    /\ TargetColumn(ts, over) # NoColumn
    /\ LET targetColumn == TargetColumn(ts, over)
           targetColumnTasks == FilterColumn(ts, targetColumn)
       IN FindTask(ts, active).column = targetColumn
            => IndexOfId(targetColumnTasks, active) # NewIndex(targetColumnTasks, over)

\* the same-column branch exchanging the two tasks instead of arrayMove
NewTasksInColumnSwaps(ts, active, over) ==
    LET activeT == FindTask(ts, active)
        targetColumn == TargetColumn(ts, over)
        targetColumnTasks == FilterColumn(ts, targetColumn)
    IN IF activeT.column # targetColumn
       THEN SpliceInsert(targetColumnTasks, InsertIndex(targetColumnTasks, over),
                         [activeT EXCEPT !.column = targetColumn])
       ELSE ArrayMoveSwap(targetColumnTasks, IndexOfId(targetColumnTasks, active),
                          NewIndex(targetColumnTasks, over))

\* step 3: newTasksInColumn, the new sequence of the target column
NewTasksInColumn(ts, active, over) ==
    LET activeT == FindTask(ts, active)
        targetColumn == TargetColumn(ts, over)
        targetColumnTasks == FilterColumn(ts, targetColumn)
    IN IF activeT.column # targetColumn
       THEN SpliceInsert(targetColumnTasks, InsertIndex(targetColumnTasks, over),
                         [activeT EXCEPT !.column = targetColumn])
       ELSE ArrayMove(targetColumnTasks, IndexOfId(targetColumnTasks, active),
                      NewIndex(targetColumnTasks, over))

\* ---- the optimistic update (handleDragEnd, step 4) ------------------------

NewTasksWithOrder(newTasksInColumn, targetColumn) ==
    [k \in 1..Len(newTasksInColumn) |->
        [newTasksInColumn[k] EXCEPT !.order = NewOrder(k - 1), !.column = targetColumn]]

\* `||` written for `&&` in the filter
OtherTasksEither(prevTasks, targetColumn, active) ==
    SelectSeq(prevTasks, LAMBDA t : t.column # targetColumn \/ t.id # active)

\* the filter without `t.id !== active.id`
OtherTasksKeepsActive(prevTasks, targetColumn, active) ==
    SelectSeq(prevTasks, LAMBDA t : t.column # targetColumn)

\* the filter taking the whole column of the active task out with it
OtherTasksDropsSource(prevTasks, targetColumn, active) ==
    SelectSeq(prevTasks, LAMBDA t : /\ t.column # targetColumn
                                    /\ t.column # FindTask(prevTasks, active).column)

OtherTasks(prevTasks, targetColumn, active) ==
    SelectSeq(prevTasks, LAMBDA t : t.column # targetColumn /\ t.id # active)

\* the merge giving the tasks it keeps the orders 100, 200, ... of their
\* positions in their columns
OptimisticTasksRenumbersKept(prevTasks, active, over) ==
    LET kept == OtherTasks(prevTasks, TargetColumn(prevTasks, over), active)
    IN [k \in 1..Len(kept) |->
           [kept[k] EXCEPT !.order =
               NewOrder(Cardinality({j \in 1..(k - 1) : kept[j].column = kept[k].column}))]]
         \o NewTasksWithOrder(NewTasksInColumn(prevTasks, active, over),
                              TargetColumn(prevTasks, over))

OptimisticTasks(prevTasks, active, over) ==
    OtherTasks(prevTasks, TargetColumn(prevTasks, over), active)
        \o NewTasksWithOrder(NewTasksInColumn(prevTasks, active, over),
                             TargetColumn(prevTasks, over))

\* ---- the batch (handleDragEnd, step 5) ------------------------------------

\* batch.update(activeRef, { column }) when the column changed
ColumnUpdates(activeT, targetColumn) ==
    IF activeT.column # targetColumn THEN {<<activeT.id, targetColumn>>} ELSE {}

\* the loop without its `if`: every task of the sequence is written
OrderUpdatesAll(newTasksInColumn, active) ==
    {<<newTasksInColumn[k].id, NewOrder(k - 1)>> : k \in 1..Len(newTasksInColumn)}

\* the loop writing the active task and the tasks after it only
OrderUpdatesFromActive(newTasksInColumn, active) ==
    {<<newTasksInColumn[k].id, NewOrder(k - 1)>> :
        k \in {j \in 1..Len(newTasksInColumn) :
                  \E i \in 1..j : newTasksInColumn[i].id = active}}

\* batch.update(ref, { order }) for the changed orders and the active task
OrderUpdates(newTasksInColumn, active) ==
    {<<newTasksInColumn[k].id, NewOrder(k - 1)>> :
        k \in {j \in 1..Len(newTasksInColumn) :
                  \/ newTasksInColumn[j].order # NewOrder(j - 1)
                  \/ newTasksInColumn[j].id = active}}

BatchOf(ts, active, over, n) ==
    [op |-> n,
     column |-> ColumnUpdates(FindTask(ts, active), TargetColumn(ts, over)),
     order |-> OrderUpdates(NewTasksInColumn(ts, active, over), active),
     plan |-> NewTasksWithOrder(NewTasksInColumn(ts, active, over),
                                TargetColumn(ts, over))]

\* ---- the remote store -----------------------------------------------------

DocIds(store) == {d.id : d \in store}

BatchIds(b) == {u[1] : u \in b.column} \cup {u[1] : u \in b.order}

\* an update of a document that does not exist fails the whole batch
CanCommit(store, b) == BatchIds(b) \subseteq DocIds(store)

ApplyBatch(store, b) ==
    {[id |-> d.id,
      column |-> IF \E u \in b.column : u[1] = d.id
                 THEN (CHOOSE u \in b.column : u[1] = d.id)[2] ELSE d.column,
      order |-> IF \E u \in b.order : u[1] = d.id
                THEN (CHOOSE u \in b.order : u[1] = d.id)[2] ELSE d.order] : d \in store}

\* query(tasksRef) without orderBy: the documents by document id
RECURSIVE SortByDocId(_)
SortByDocId(store) ==
    IF store = {} THEN <<>>
    ELSE LET first == CHOOSE d \in store : \A e \in store : d.id <= e.id
         IN <<first>> \o SortByDocId(store \ {first})

\* query(tasksRef, orderBy("order")): ascending order, ties by document id
RECURSIVE SortByOrder(_)
SortByOrder(store) ==
    IF store = {} THEN <<>>
    ELSE LET first == CHOOSE d \in store : \A e \in store :
                          d.order < e.order \/ (d.order = e.order /\ d.id <= e.id)
         IN <<first>> \o SortByOrder(store \ {first})

RemoveAt(s, k) == SubSeq(s, 1, k - 1) \o SubSeq(s, k + 1, Len(s))

\* The stores a session starts on. Task i was appended to its column with
\* order i * GAP (addTask: max + GAP) and tasks deleted since left the gaps.
\* Every way of splitting the tasks over the columns is taken once, up to
\* renaming the columns: task i goes to one of the columns used by the
\* tasks before it or to the first unused one.
SeedColumns ==
    {f \in [Ids -> 1..Len(ColumnSeq)] :
        \A i \in Ids : \A c \in 1..(f[i] - 1) : \E j \in 1..(i - 1) : f[j] = c}

SeedStores ==
    {{[id |-> i, column |-> ColumnSeq[f[i]], order |-> i * GAP] : i \in Ids} :
        f \in SeedColumns}

\* the store with every task in the first column
OneColumnStore == {[id |-> i, column |-> ColumnSeq[1], order |-> i * GAP] : i \in Ids}

\* ---- notifications ---------------------------------------------------------

\* addNotification: setNotifications((prev) => [...prev, { id, message, type }])
AddNotification(prev, message, type) ==
    Append(prev, [message |-> message, type |-> type])

\* ---- history --------------------------------------------------------------

\* what a handler other than handleDragEnd leaves in `last`
Ran(op, id) ==
    [op |-> op, active |-> id, over |-> NoOver, applied |-> FALSE, tasks |-> <<>>,
     notifications |-> <<>>, inflight |-> <<>>, picked |-> NoTask]

\* what the settling of batch b leaves in `last`
Settled(op, b) ==
    [Ran(op, b.op) EXCEPT !.tasks = b.plan, !.inflight = <<b>>]

\* ---- initial state --------------------------------------------------------

Init ==
    /\ tasks = <<>>
    /\ activeTask = NoTask
    /\ notifications = <<>>
    /\ taskToDelete = 0
    /\ isDeleteModalOpen = FALSE
    /\ activeProjectId = NoProject
    /\ remote \in SeedStores
    /\ inflight = <<>>
    /\ deleting = <<>>
    /\ dragging = 0
    /\ writes = 0
    /\ activeColumn = "Not Started"
    /\ newTaskTitle = ""
    /\ adding = <<>>
    /\ editing = <<>>
    /\ titles = [i \in Ids |-> FirstTitle]
    /\ remoteTitles = [i \in Ids |-> FirstTitle]
    /\ last = Ran("init", 0)

\* ---- live feed ------------------------------------------------------------

\* the projects listener auto-selects the first project when none is selected
ProjectsSnapshot ==
    /\ activeProjectId = NoProject
    /\ activeProjectId' = FirstProject
    /\ last' = Ran("other", 0)
    /\ UNCHANGED <<tasks, activeTask, notifications, taskToDelete, isDeleteModalOpen,
                   remote, inflight, deleting, dragging, writes>>
    /\ UNCHANGED formVars

\* the listener drops a snapshot that arrives while a batch is in flight
TaskSnapshotKeepsPending ==
    /\ activeProjectId # NoProject
    /\ tasks' = IF inflight = <<>> THEN SortByOrder(remote) ELSE tasks
    /\ last' = Ran("snapshot", 0)
    /\ UNCHANGED <<activeTask, notifications, taskToDelete, isDeleteModalOpen,
                   activeProjectId, remote, inflight, deleting, dragging, writes>>
    /\ titles' = IF inflight = <<>> THEN remoteTitles ELSE titles
    /\ UNCHANGED <<activeColumn, newTaskTitle, adding, editing, remoteTitles>>

\* getDocs in the place of onSnapshot: the list is loaded once
TaskSnapshotOnce ==
    /\ activeProjectId # NoProject
    /\ tasks' = IF tasks = <<>> THEN SortByOrder(remote) ELSE tasks
    /\ last' = Ran("snapshot", 0)
    /\ UNCHANGED <<activeTask, notifications, taskToDelete, isDeleteModalOpen,
                   activeProjectId, remote, inflight, deleting, dragging, writes>>
    /\ titles' = IF tasks = <<>> THEN remoteTitles ELSE titles
    /\ UNCHANGED <<activeColumn, newTaskTitle, adding, editing, remoteTitles>>

\* the tasks listener replaces the in-memory list by the snapshot
TaskSnapshot ==
    /\ activeProjectId # NoProject
    /\ tasks' = SortByOrder(remote)
    /\ last' = Ran("snapshot", 0)
    /\ UNCHANGED <<activeTask, notifications, taskToDelete, isDeleteModalOpen,
                   activeProjectId, remote, inflight, deleting, dragging, writes>>
    /\ titles' = remoteTitles
    /\ UNCHANGED <<activeColumn, newTaskTitle, adding, editing, remoteTitles>>

\* ---- drag and drop --------------------------------------------------------

HandleDragStart(active) ==
    /\ dragging = 0
    /\ dragging' = active
    /\ activeTask' = FindTask(tasks, active)
    /\ last' = Ran("dragStart", active)
    /\ UNCHANGED <<tasks, notifications, taskToDelete, isDeleteModalOpen,
                   activeProjectId, remote, inflight, deleting, writes>>
    /\ UNCHANGED formVars

\* setTasks written below `await batch.commit()`: the list waits for the commit
DragEndEffectsAwaitsCommit(over) ==
    /\ dragging # 0
    /\ dragging' = 0
    /\ last' = [op |-> "dragEnd", active |-> dragging, over |-> over,
                applied |-> Applies(tasks, dragging, over), tasks |-> tasks,
                notifications |-> notifications, inflight |-> inflight,
                picked |-> activeTask]
    /\ IF Applies(tasks, dragging, over)
       THEN /\ writes < MaxWrites
            /\ tasks' = IF activeProjectId = NoProject
                        THEN OptimisticTasks(tasks, dragging, over) ELSE tasks
            /\ IF activeProjectId = NoProject
               THEN UNCHANGED <<inflight, writes>>
               ELSE /\ inflight' = Append(inflight,
                                          BatchOf(tasks, dragging, over, writes + 1))
                    /\ writes' = writes + 1
       ELSE UNCHANGED <<tasks, inflight, writes>>
    /\ UNCHANGED <<notifications, taskToDelete, isDeleteModalOpen, activeProjectId,
                   remote, deleting>>
    /\ UNCHANGED formVars

\* the reorder planned on the list of the last confirmed state, not on the
\* list in memory
DragEndEffectsPlansOnStore(over) ==
    /\ dragging # 0
    /\ dragging' = 0
    /\ last' = [op |-> "dragEnd", active |-> dragging, over |-> over,
                applied |-> Applies(SortByOrder(remote), dragging, over),
                tasks |-> tasks, notifications |-> notifications,
                inflight |-> inflight, picked |-> activeTask]
    /\ IF Applies(SortByOrder(remote), dragging, over)
       THEN /\ writes < MaxWrites
            /\ tasks' = OptimisticTasks(SortByOrder(remote), dragging, over)
            /\ IF activeProjectId = NoProject
               THEN UNCHANGED <<inflight, writes>>
               ELSE /\ inflight' = Append(inflight,
                          BatchOf(SortByOrder(remote), dragging, over, writes + 1))
                    /\ writes' = writes + 1
       ELSE UNCHANGED <<tasks, inflight, writes>>
    /\ UNCHANGED <<notifications, taskToDelete, isDeleteModalOpen, activeProjectId,
                   remote, deleting>>
    /\ UNCHANGED formVars

\* handleDragEnd from the first early return up to the await of batch.commit()
DragEndEffects(over) ==
    /\ dragging # 0
    /\ dragging' = 0
    /\ last' = [op |-> "dragEnd", active |-> dragging, over |-> over,
                applied |-> Applies(tasks, dragging, over), tasks |-> tasks,
                notifications |-> notifications, inflight |-> inflight,
                picked |-> activeTask]
    /\ IF Applies(tasks, dragging, over)
       THEN /\ writes < MaxWrites
            /\ tasks' = OptimisticTasks(tasks, dragging, over)
            /\ IF activeProjectId = NoProject
               THEN UNCHANGED <<inflight, writes>>
               ELSE /\ inflight' = Append(inflight,
                                          BatchOf(tasks, dragging, over, writes + 1))
                    /\ writes' = writes + 1
       ELSE UNCHANGED <<tasks, inflight, writes>>
    /\ UNCHANGED <<notifications, taskToDelete, isDeleteModalOpen, activeProjectId,
                   remote, deleting>>
    /\ UNCHANGED formVars

\* setActiveTask(null) written below the `if (!over) return`
HandleDragEndReturnsFirst(over) ==
    /\ DragEndEffects(over)
    /\ activeTask' = IF over = NoOver THEN activeTask ELSE NoTask

\* setActiveTask(null) written next to the optimistic update
HandleDragEndClearsOnApply(over) ==
    /\ DragEndEffects(over)
    /\ activeTask' = IF Applies(tasks, dragging, over) THEN NoTask ELSE activeTask

\* handleDragEnd: the session is cleared first, whatever the outcome
HandleDragEnd(over) ==
    /\ DragEndEffects(over)
    /\ activeTask' = NoTask

\* await batch.commit() resolves: every update of the batch is applied
CommitSucceeds(k) ==
    /\ k \in 1..Len(inflight)
    /\ CanCommit(remote, inflight[k])
    /\ remote' = ApplyBatch(remote, inflight[k])
    /\ inflight' = RemoveAt(inflight, k)
    /\ last' = Settled("commitSucceeds", inflight[k])
    /\ UNCHANGED <<tasks, activeTask, notifications, taskToDelete, isDeleteModalOpen,
                   activeProjectId, deleting, dragging, writes>>
    /\ UNCHANGED formVars

\* the updates sent one by one, `await updateDoc` in the loop: the first is
\* in the store when a later one rejects
CommitFailsAfterFirst(k) ==
    /\ k \in 1..Len(inflight)
    /\ remote' = LET first == CHOOSE u \in inflight[k].order : TRUE
                 IN ApplyBatch(remote, [inflight[k] EXCEPT !.column = {},
                                                           !.order = {first}])
    /\ inflight' = RemoveAt(inflight, k)
    /\ notifications' = AddNotification(notifications, "Failed to save new order", "error")
    /\ last' = Settled("commitFails", inflight[k])
    /\ UNCHANGED <<tasks, activeTask, taskToDelete, isDeleteModalOpen,
                   activeProjectId, deleting, dragging, writes>>
    /\ UNCHANGED formVars

\* the catch block commits the batch again after reporting
CommitFailsRetries(k) ==
    /\ k \in 1..Len(inflight)
    /\ notifications' = AddNotification(notifications, "Failed to save new order", "error")
    /\ last' = Settled("commitFails", inflight[k])
    /\ UNCHANGED <<tasks, activeTask, taskToDelete, isDeleteModalOpen, inflight,
                   activeProjectId, remote, deleting, dragging, writes>>
    /\ UNCHANGED formVars

\* await batch.commit() rejects: the catch block reports it
CommitFails(k) ==
    /\ k \in 1..Len(inflight)
    /\ inflight' = RemoveAt(inflight, k)
    /\ notifications' = AddNotification(notifications, "Failed to save new order", "error")
    /\ last' = Settled("commitFails", inflight[k])
    /\ UNCHANGED <<tasks, activeTask, taskToDelete, isDeleteModalOpen,
                   activeProjectId, remote, deleting, dragging, writes>>
    /\ UNCHANGED formVars

\* ---- delete ---------------------------------------------------------------

\* deleteTask calls deleteDoc itself, without the dialog
DeleteTaskAtOnce(taskId) ==
    /\ IndexOfId(tasks, taskId) >= 0
    /\ activeProjectId # NoProject
    /\ writes < MaxWrites
    /\ deleting' = Append(deleting, taskId)
    /\ writes' = writes + 1
    /\ last' = Ran("deleteTask", taskId)
    /\ UNCHANGED <<tasks, activeTask, notifications, taskToDelete, isDeleteModalOpen,
                   activeProjectId, remote, inflight, dragging>>
    /\ UNCHANGED formVars

\* the delete button of a rendered task card
DeleteTask(taskId) ==
    /\ IndexOfId(tasks, taskId) >= 0
    /\ taskToDelete' = taskId
    /\ isDeleteModalOpen' = TRUE
    /\ last' = Ran("deleteTask", taskId)
    /\ UNCHANGED <<tasks, activeTask, notifications, activeProjectId, remote,
                   inflight, deleting, dragging, writes>>
    /\ UNCHANGED formVars

\* onCancel of the confirmation modal
CancelDelete ==
    /\ isDeleteModalOpen
    /\ isDeleteModalOpen' = FALSE
    /\ last' = Ran("cancelDelete", 0)
    /\ UNCHANGED <<tasks, activeTask, notifications, taskToDelete, activeProjectId,
                   remote, inflight, deleting, dragging, writes>>
    /\ UNCHANGED formVars

\* confirmDeleteTask up to the await of deleteDoc()
ConfirmDeleteTask ==
    /\ isDeleteModalOpen
    /\ taskToDelete # 0 /\ activeProjectId # NoProject
    /\ writes < MaxWrites
    /\ deleting' = Append(deleting, taskToDelete)
    /\ writes' = writes + 1
    /\ last' = Ran("confirmDelete", taskToDelete)
    /\ UNCHANGED <<tasks, activeTask, notifications, taskToDelete, isDeleteModalOpen,
                   activeProjectId, remote, inflight, dragging>>
    /\ UNCHANGED formVars

\* await deleteDoc() resolves, then the finally block
DeleteSucceeds(k) ==
    /\ k \in 1..Len(deleting)
    /\ remote' = {d \in remote : d.id # deleting[k]}
    /\ deleting' = RemoveAt(deleting, k)
    /\ notifications' = AddNotification(notifications, "Task deleted successfully", "success")
    /\ isDeleteModalOpen' = FALSE
    /\ taskToDelete' = 0
    /\ last' = Ran("deleteSucceeds", deleting[k])
    /\ UNCHANGED <<tasks, activeTask, activeProjectId, inflight, dragging, writes>>
    /\ UNCHANGED formVars

\* await deleteDoc() rejects, then the finally block
DeleteFails(k) ==
    /\ k \in 1..Len(deleting)
    /\ deleting' = RemoveAt(deleting, k)
    /\ notifications' = AddNotification(notifications, "Failed to delete task", "error")
    /\ isDeleteModalOpen' = FALSE
    /\ taskToDelete' = 0
    /\ last' = Ran("deleteFails", deleting[k])
    /\ UNCHANGED <<tasks, activeTask, activeProjectId, remote, inflight, dragging, writes>>
    /\ UNCHANGED formVars

\* ---- add form and edit ---------------------------------------------------

\* Math.max(...values, 0)
MaxOf(values) == CHOOSE m \in values \cup {0} : \A v \in values \cup {0} : v <= m

\* the new order counted from the number of tasks of the column
NewTaskOrderByCount(ts, column) == Len(FilterColumn(ts, column)) * GAP + GAP

\* addTask: maxOrder + 100 over the in-memory tasks of the column
NewTaskOrder(ts, column) ==
    MaxOf({FilterColumn(ts, column)[k].order : k \in 1..Len(FilterColumn(ts, column))})
        + GAP

\* the add form is followed while a task can still be added (bounds the run)
CanAdd == writes < MaxWrites /\ adding = <<>> /\ MaxTasks \notin DocIds(remote)

\* onChange of the column select
SetActiveColumn(column) ==
    /\ CanAdd
    /\ column # activeColumn
    /\ activeColumn' = column
    /\ last' = Ran("other", 0)
    /\ UNCHANGED <<tasks, activeTask, notifications, taskToDelete, isDeleteModalOpen,
                   activeProjectId, remote, inflight, deleting, dragging, writes,
                   newTaskTitle, adding, editing, titles, remoteTitles>>

\* onChange of the title input
SetNewTaskTitle(title) ==
    /\ CanAdd
    /\ title # newTaskTitle
    /\ newTaskTitle' = title
    /\ last' = Ran("other", 0)
    /\ UNCHANGED <<tasks, activeTask, notifications, taskToDelete, isDeleteModalOpen,
                   activeProjectId, remote, inflight, deleting, dragging, writes,
                   activeColumn, adding, editing, titles, remoteTitles>>

\* addTask up to the await of addDoc(); the store gives the new document the
\* id that was never in use, and the run has one new document
AddTask ==
    /\ last' = [Ran("addTask", 0) EXCEPT
                    !.applied = Trim(newTaskTitle) # "" /\ activeProjectId # NoProject]
    /\ IF Trim(newTaskTitle) = ""
       THEN UNCHANGED <<notifications, adding, writes>>
       ELSE IF activeProjectId = NoProject
       THEN /\ Len(notifications) < MaxWrites
            /\ notifications' = AddNotification(notifications,
                                     "Please select a project first", "error")
            /\ UNCHANGED <<adding, writes>>
       ELSE /\ CanAdd
            /\ adding' = Append(adding, [title |-> Trim(newTaskTitle),
                                         column |-> activeColumn,
                                         order |-> NewTaskOrder(tasks, activeColumn)])
            /\ writes' = writes + 1
            /\ UNCHANGED notifications
    /\ UNCHANGED <<tasks, activeTask, taskToDelete, isDeleteModalOpen,
                   activeProjectId, remote, inflight, deleting, dragging,
                   activeColumn, newTaskTitle, editing, titles, remoteTitles>>

\* the handler puts the new task in the list itself after addDoc() resolves
AddSucceedsAppendsLocally ==
    /\ adding # <<>>
    /\ remote' = remote \cup {[id |-> MaxTasks, column |-> adding[1].column,
                                order |-> adding[1].order]}
    /\ remoteTitles' = [remoteTitles EXCEPT ![MaxTasks] = adding[1].title]
    /\ tasks' = Append(tasks, [id |-> MaxTasks, column |-> adding[1].column,
                               order |-> adding[1].order])
    /\ adding' = Tail(adding)
    /\ newTaskTitle' = ""
    /\ last' = Ran("addSucceeds", MaxTasks)
    /\ UNCHANGED <<activeTask, notifications, taskToDelete, isDeleteModalOpen,
                   activeProjectId, inflight, deleting, dragging, writes,
                   activeColumn, editing, titles>>

\* await addDoc() resolves, then setNewTaskTitle("")
AddSucceeds ==
    /\ adding # <<>>
    /\ remote' = remote \cup {[id |-> MaxTasks, column |-> adding[1].column,
                                order |-> adding[1].order]}
    /\ remoteTitles' = [remoteTitles EXCEPT ![MaxTasks] = adding[1].title]
    /\ adding' = Tail(adding)
    /\ newTaskTitle' = ""
    /\ last' = Ran("addSucceeds", MaxTasks)
    /\ UNCHANGED <<tasks, activeTask, notifications, taskToDelete, isDeleteModalOpen,
                   activeProjectId, inflight, deleting, dragging, writes,
                   activeColumn, editing, titles>>

\* await addDoc() rejects: the catch block logs and alerts
AddFails ==
    /\ adding # <<>>
    /\ adding' = Tail(adding)
    /\ last' = Ran("other", 0)
    /\ UNCHANGED <<tasks, activeTask, notifications, taskToDelete, isDeleteModalOpen,
                   activeProjectId, remote, inflight, deleting, dragging, writes,
                   activeColumn, newTaskTitle, editing, titles, remoteTitles>>

\* handleSave of a rendered task card with a new title, then updateTask up to
\* the await of updateDoc()
UpdateTask(taskId) ==
    /\ IndexOfId(tasks, taskId) >= 0
    /\ EditedTitle # titles[taskId]
    /\ last' = Ran("updateTask", taskId)
    /\ IF activeProjectId = NoProject
       THEN UNCHANGED <<editing, writes>>
       ELSE /\ writes < MaxWrites
            /\ editing' = Append(editing, [id |-> taskId, title |-> EditedTitle])
            /\ writes' = writes + 1
    /\ UNCHANGED <<tasks, activeTask, notifications, taskToDelete, isDeleteModalOpen,
                   activeProjectId, remote, inflight, deleting, dragging,
                   activeColumn, newTaskTitle, adding, titles, remoteTitles>>

\* await updateDoc() resolves: the document has the new title
UpdateSucceeds(k) ==
    /\ k \in 1..Len(editing)
    /\ editing[k].id \in DocIds(remote)
    /\ remoteTitles' = [remoteTitles EXCEPT ![editing[k].id] = editing[k].title]
    /\ editing' = RemoveAt(editing, k)
    /\ last' = Ran("other", 0)
    /\ UNCHANGED <<tasks, activeTask, notifications, taskToDelete, isDeleteModalOpen,
                   activeProjectId, remote, inflight, deleting, dragging, writes,
                   activeColumn, newTaskTitle, adding, titles>>

\* await updateDoc() rejects: the catch block logs
UpdateFails(k) ==
    /\ k \in 1..Len(editing)
    /\ editing' = RemoveAt(editing, k)
    /\ last' = Ran("other", 0)
    /\ UNCHANGED <<tasks, activeTask, notifications, taskToDelete, isDeleteModalOpen,
                   activeProjectId, remote, inflight, deleting, dragging, writes,
                   activeColumn, newTaskTitle, adding, titles, remoteTitles>>

\* ---- specification --------------------------------------------------------

Next ==
    \/ ProjectsSnapshot
    \/ TaskSnapshot
    \/ \E active \in Ids : HandleDragStart(active)
    \/ \E over \in Overs : HandleDragEnd(over)
    \/ \E k \in 1..MaxWrites : CommitSucceeds(k)
    \/ \E k \in 1..MaxWrites : CommitFails(k)

Spec == Init /\ [][Next]_vars

NextAll ==
    \/ ProjectsSnapshot
    \/ TaskSnapshot
    \/ \E active \in Ids : HandleDragStart(active)
    \/ \E over \in Overs : HandleDragEnd(over)
    \/ \E k \in 1..MaxWrites : CommitSucceeds(k)
    \/ \E k \in 1..MaxWrites : CommitFails(k)
    \/ \E taskId \in Ids : DeleteTask(taskId)
    \/ CancelDelete
    \/ ConfirmDeleteTask
    \/ \E k \in 1..MaxWrites : DeleteSucceeds(k)
    \/ \E k \in 1..MaxWrites : DeleteFails(k)

InitAll == Init /\ remote = OneColumnStore

SpecAll == InitAll /\ [][NextAll]_vars

\* the store of a session that adds a task: of two tasks added to the first
\* column the first was deleted, and the last id is not in use
FormStore == {[id |-> 1, column |-> ColumnSeq[1], order |-> GAP + GAP]}

InitForm ==
    /\ tasks = <<>>
    /\ activeTask = NoTask
    /\ notifications = <<>>
    /\ taskToDelete = 0
    /\ isDeleteModalOpen = FALSE
    /\ activeProjectId = NoProject
    /\ remote = FormStore
    /\ inflight = <<>>
    /\ deleting = <<>>
    /\ dragging = 0
    /\ writes = 0
    /\ activeColumn = "Not Started"
    /\ newTaskTitle = ""
    /\ adding = <<>>
    /\ editing = <<>>
    /\ titles = [i \in Ids |-> FirstTitle]
    /\ remoteTitles = [i \in Ids |-> FirstTitle]
    /\ last = Ran("init", 0)

NextForm ==
    \/ ProjectsSnapshot
    \/ TaskSnapshot
    \/ \E active \in Ids : HandleDragStart(active)
    \/ \E over \in Overs : HandleDragEnd(over)
    \/ \E k \in 1..MaxWrites : CommitSucceeds(k)
    \/ \E k \in 1..MaxWrites : CommitFails(k)
    \/ writes < MaxWrites /\ \E taskId \in Ids : DeleteTask(taskId)
    \/ CancelDelete
    \/ ConfirmDeleteTask
    \/ \E k \in 1..MaxWrites : DeleteSucceeds(k)
    \/ \E k \in 1..MaxWrites : DeleteFails(k)
    \/ \E column \in Columns : SetActiveColumn(column)
    \/ \E title \in InputTitles : SetNewTaskTitle(title)
    \/ AddTask
    \/ AddSucceeds
    \/ AddFails
    \/ \E taskId \in Ids : UpdateTask(taskId)
    \/ \E k \in 1..MaxWrites : UpdateSucceeds(k)
    \/ \E k \in 1..MaxWrites : UpdateFails(k)

SpecForm == InitForm /\ [][NextForm]_vars

\* the store of a session whose one task is the first that was added
AddStore == {[id |-> 1, column |-> ColumnSeq[1], order |-> GAP]}

InitAdd ==
    /\ tasks = <<>>
    /\ activeTask = NoTask
    /\ notifications = <<>>
    /\ taskToDelete = 0
    /\ isDeleteModalOpen = FALSE
    /\ activeProjectId = NoProject
    /\ remote = AddStore
    /\ inflight = <<>>
    /\ deleting = <<>>
    /\ dragging = 0
    /\ writes = 0
    /\ activeColumn = "Not Started"
    /\ newTaskTitle = ""
    /\ adding = <<>>
    /\ editing = <<>>
    /\ titles = [i \in Ids |-> FirstTitle]
    /\ remoteTitles = [i \in Ids |-> FirstTitle]
    /\ last = Ran("init", 0)

NextAdd ==
    \/ ProjectsSnapshot
    \/ TaskSnapshot
    \/ \E active \in Ids : HandleDragStart(active)
    \/ \E over \in Overs : HandleDragEnd(over)
    \/ \E k \in 1..MaxWrites : CommitSucceeds(k)
    \/ \E k \in 1..MaxWrites : CommitFails(k)
    \/ \E column \in Columns : SetActiveColumn(column)
    \/ \E title \in InputTitles : SetNewTaskTitle(title)
    \/ AddTask
    \/ AddSucceeds
    \/ AddFails

SpecAdd == InitAdd /\ [][NextAdd]_vars

\* ---- a second project ------------------------------------------------------

SecondProject == "p2"

\* the tasks of the first and of the second project: document ids are unique
\* over the projects
SwitchStore ==
    {[id |-> 1, column |-> ColumnSeq[1], order |-> GAP],
     [id |-> 2, column |-> ColumnSeq[1], order |-> GAP + GAP]}

SecondStore == {[id |-> MaxTasks, column |-> ColumnSeq[1], order |-> GAP]}

\* The sidebar's onSelectProject is setActiveProjectId: the tasks effect
\* unsubscribes and subscribes to the tasks of the selected project, and the
\* in-memory list stays as it is until the new listener's first snapshot.
\* `remote` is the store of the active project. Taken once, from the first
\* to the second project, while no write is in flight.
SelectProject(projectId) ==
    /\ activeProjectId = FirstProject
    /\ projectId # activeProjectId
    /\ inflight = <<>>
    /\ activeProjectId' = projectId
    /\ remote' = SecondStore
    /\ last' = Ran("selectProject", 0)
    /\ UNCHANGED <<tasks, activeTask, notifications, taskToDelete, isDeleteModalOpen,
                   inflight, deleting, dragging, writes>>
    /\ UNCHANGED formVars

InitSwitch ==
    /\ tasks = <<>>
    /\ activeTask = NoTask
    /\ notifications = <<>>
    /\ taskToDelete = 0
    /\ isDeleteModalOpen = FALSE
    /\ activeProjectId = NoProject
    /\ remote = SwitchStore
    /\ inflight = <<>>
    /\ deleting = <<>>
    /\ dragging = 0
    /\ writes = 0
    /\ activeColumn = "Not Started"
    /\ newTaskTitle = ""
    /\ adding = <<>>
    /\ editing = <<>>
    /\ titles = [i \in Ids |-> FirstTitle]
    /\ remoteTitles = [i \in Ids |-> FirstTitle]
    /\ last = Ran("init", 0)

NextSwitch ==
    \/ ProjectsSnapshot
    \/ TaskSnapshot
    \/ SelectProject(SecondProject)
    \/ \E active \in Ids : HandleDragStart(active)
    \/ \E over \in Overs : HandleDragEnd(over)
    \/ \E k \in 1..MaxWrites : CommitSucceeds(k)
    \/ \E k \in 1..MaxWrites : CommitFails(k)

SpecSwitch == InitSwitch /\ [][NextSwitch]_vars

\* The listeners stay subscribed for the life of the component (onSnapshot,
\* unsubscribed in the effect's cleanup only): a snapshot that would change
\* what the component holds is delivered in the end. Nothing is assumed of
\* the user or of the time a commit takes to settle.
FairSpec ==
    /\ InitAll
    /\ [][Next]_vars
    /\ WF_vars(ProjectsSnapshot)
    /\ WF_vars(TaskSnapshot)

\* ---- vocabulary of the properties ------------------------------------------

IdsOf(ts) == [k \in 1..Len(ts) |-> ts[k].id]

Without(ts, i) == SelectSeq(ts, LAMBDA t : t.id # i)

\* no two tasks of one column share an order value
UniqueOrders(ts) ==
    \A i, j \in 1..Len(ts) :
        (i # j /\ ts[i].column = ts[j].column) => ts[i].order # ts[j].order

\* ids lists every task of ts once, by ascending order value
AscendingSortOf(ids, ts) ==
    /\ Len(ids) = Len(ts)
    /\ \A k \in 1..Len(ts) : \E j \in 1..Len(ids) : ids[j] = ts[k].id
    /\ \A j, k \in 1..Len(ids) : j # k => ids[j] # ids[k]
    /\ \A k \in 1..(Len(ids) - 1) :
           FindTask(ts, ids[k]).order <= FindTask(ts, ids[k + 1]).order

\* the last handler was a drag-end that reached the optimistic update
ReorderApplied == last.op = "dragEnd" /\ last.applied

\* of the last drag-end: the dragged task as it was in the list, the target
\* column and the planner's sequence for it
LastActive == FindTask(last.tasks, last.active)

LastTarget == TargetColumn(last.tasks, last.over)

LastPlan == NewTasksInColumn(last.tasks, last.active, last.over)

\* ---- properties -----------------------------------------------------------

\* C1: after a drag-end that applies a reorder, no two tasks of one column of
\* the in-memory list share an order value, if none did before the drag.
C1_OrderUniqueness ==
    (ReorderApplied /\ UniqueOrders(last.tasks)) => UniqueOrders(tasks)

\* a cross-column move into a column that already held two tasks
C1_Witness ==
    /\ ReorderApplied /\ UniqueOrders(last.tasks)
    /\ LastActive.column # LastTarget
    /\ Len(FilterColumn(last.tasks, LastTarget)) >= 2

\* C2: no two tasks of one column share an order value in the remote store.
C2_RemoteOrderUniqueness == UniqueOrders(SortByOrder(remote))

\* C3: after an applied reorder the task at position i (from 0) of the
\* planner's sequence has order (i+1)*100 and the target column, and the
\* target column's orders are exactly 100, 200, ..., n*100.
C3_SequentialOrders ==
    ReorderApplied =>
        /\ \A k \in 1..Len(LastPlan) :
               /\ FindTask(tasks, LastPlan[k].id).order = k * 100
               /\ FindTask(tasks, LastPlan[k].id).column = LastTarget
        /\ LET column == FilterColumn(tasks, LastTarget)
           IN /\ Len(column) = Len(LastPlan)
              /\ {column[k].order : k \in 1..Len(column)}
                     = {k * 100 : k \in 1..Len(column)}

\* a reorder that renumbers a task it did not move, from an order that was
\* not its position's
C3_Witness ==
    /\ ReorderApplied
    /\ \E k \in 1..Len(LastPlan) :
           /\ LastPlan[k].id # last.active
           /\ LastPlan[k].order # k * 100
           /\ FindTask(tasks, LastPlan[k].id).order = k * 100

\* C4: after an applied reorder every column, sorted by ascending order, is
\* the sequence the planner intended: its new sequence for the target column,
\* the previous sequence less the moved task for the others.
C4_OrderMonotonicity ==
    ReorderApplied =>
        \A c \in Columns :
            AscendingSortOf(
                IF c = LastTarget
                THEN IdsOf(LastPlan)
                ELSE IdsOf(Without(FilterColumn(last.tasks, c), last.active)),
                FilterColumn(tasks, c))

\* a cross-column move that leaves tasks behind in the source column
C4_Witness ==
    /\ ReorderApplied
    /\ LastActive.column # LastTarget
    /\ Len(FilterColumn(tasks, LastActive.column)) >= 1
    /\ Len(FilterColumn(tasks, LastTarget)) >= 2

\* the column the drop target of the last drag-end stands for, read off the
\* list as it was: the marker's column, or the column of the task dropped on
DropColumn ==
    IF last.over.type = "column"
    THEN last.over.column
    ELSE FindTask(last.tasks, last.over.id).column

\* the last drag-end left list, batches and notifications as they were
NothingDone ==
    /\ tasks = last.tasks
    /\ inflight = last.inflight
    /\ notifications = last.notifications

\* C5: task T of column A dropped on a target of column B # A leaves A, has
\* column B, sits in B at the previous index of the task dropped on (or at
\* B's previous length for a drop on the column), B's other tasks keep their
\* sequence and B is numbered 100, 200, ...; on an empty B, T gets 100.
C5_CrossColumnMove ==
    (/\ last.op = "dragEnd"
     /\ LastActive # NoTask
     /\ DropColumn \in Columns
     /\ LastActive.column # DropColumn)
    => LET oldB == FilterColumn(last.tasks, DropColumn)
           newB == FilterColumn(tasks, DropColumn)
           i == IF last.over.type = "task"
                THEN IndexOfId(oldB, last.over.id) ELSE Len(oldB)
       IN /\ IndexOfId(FilterColumn(tasks, LastActive.column), last.active) = -1
          /\ FindTask(tasks, last.active).column = DropColumn
          /\ IndexOfId(newB, last.active) = i
          /\ IdsOf(Without(newB, last.active)) = IdsOf(oldB)
          /\ \A k \in 1..Len(newB) : newB[k].order = k * 100
          /\ (oldB = <<>> => FindTask(tasks, last.active).order = 100)

\* T dropped on the second of two tasks of another column
C5_Witness ==
    /\ last.op = "dragEnd"
    /\ LastActive # NoTask
    /\ DropColumn \in Columns
    /\ LastActive.column # DropColumn
    /\ last.over.type = "task"
    /\ Len(FilterColumn(last.tasks, DropColumn)) = 2
    /\ IndexOfId(FilterColumn(tasks, DropColumn), last.active) = 1

\* C6: the active task at oldIndex dropped on a task of its own column at
\* newIndex (or on its column, newIndex the last index), oldIndex # newIndex,
\* ends at newIndex; the tasks between shift by one slot, the others stay,
\* and the column is numbered 100, 200, ...
C6_SameColumnReorder ==
    (/\ last.op = "dragEnd"
     /\ LastActive # NoTask
     /\ DropColumn = LastActive.column)
    => LET old == FilterColumn(last.tasks, DropColumn)
           new == FilterColumn(tasks, DropColumn)
           oldIndex == IndexOfId(old, last.active)
           newIndex == IF last.over.type = "task"
                       THEN IndexOfId(old, last.over.id) ELSE Len(old) - 1
           Shifted(p) == IF oldIndex < p /\ p <= newIndex THEN p - 1
                         ELSE IF newIndex <= p /\ p < oldIndex THEN p + 1 ELSE p
       IN oldIndex # newIndex =>
            /\ IndexOfId(new, last.active) = newIndex
            /\ IdsOf(Without(new, last.active)) = IdsOf(Without(old, last.active))
            /\ \A p \in 0..(Len(old) - 1) :
                   p # oldIndex => IndexOfId(new, old[p + 1].id) = Shifted(p)
            /\ \A k \in 1..Len(new) : new[k].order = k * 100

\* [A, B, C] at 100, 200, 300 with B dropped on A gives [B, A, C]
C6_Witness ==
    /\ last.op = "dragEnd"
    /\ IdsOf(FilterColumn(last.tasks, "Not Started")) = <<1, 2, 3>>
    /\ last.active = 2
    /\ last.over = TaskOver(1)
    /\ FilterColumn(tasks, "Not Started")
         = << [id |-> 2, column |-> "Not Started", order |-> 100],
              [id |-> 1, column |-> "Not Started", order |-> 200],
              [id |-> 3, column |-> "Not Started", order |-> 300] >>

\* the last drag-end dropped the task where it already was: on itself, or on
\* its own column while it was the column's last task
SamePositionDrop ==
    /\ last.op = "dragEnd"
    /\ LastActive # NoTask
    /\ \/ last.over = TaskOver(last.active)
       \/ /\ last.over = ColumnOver(LastActive.column)
          /\ IndexOfId(FilterColumn(last.tasks, LastActive.column), last.active)
                = Len(FilterColumn(last.tasks, LastActive.column)) - 1

\* C7: a task dropped at its own position leaves the in-memory list as it
\* was (nothing is renumbered), issues no batch and records no notification.
C7_NoOpIdempotence == SamePositionDrop => NothingDone

\* the last task of a column whose orders are not 100, 200, ... dropped on
\* its column
C7_Witness ==
    /\ SamePositionDrop
    /\ last.over.type = "column"
    /\ LET column == FilterColumn(tasks, LastActive.column)
       IN \E k \in 1..Len(column) : column[k].order # k * 100

\* C8: a drag-end without drop target changes nothing in the list, issues no
\* batch, records no notification and leaves the drag session cleared.
C8_Cancellation ==
    (last.op = "dragEnd" /\ last.over = NoOver)
        => (NothingDone /\ activeTask = NoTask)

\* a drag of a listed task, whose session was set, ends without target
C8_Witness ==
    /\ last.op = "dragEnd"
    /\ last.over = NoOver
    /\ last.picked # NoTask
    /\ LastActive # NoTask

\* C9: a drag-end whose active task is no longer in the list, or whose drop
\* target is a task card that is not in the list, changes nothing.
C9_ChangingWorkingSet ==
    (/\ last.op = "dragEnd"
     /\ \/ LastActive = NoTask
        \/ last.over.type = "task" /\ FindTask(last.tasks, last.over.id) = NoTask)
    => NothingDone

\* the dragged task was in the list at drag start, a snapshot removed it, and
\* the drop is on a column
C9_Witness ==
    /\ last.op = "dragEnd"
    /\ last.picked # NoTask
    /\ last.picked.id = last.active
    /\ LastActive = NoTask
    /\ last.over.type = "column"
    /\ last.tasks # <<>>

\* C10: the drag session is null after every drag-end; drag-start sets it to
\* the listed task of the dragged id, or to null; nothing else changes it.
C10_DragSession ==
    /\ [](last.op = "dragEnd" => activeTask = NoTask)
    /\ [](last.op = "dragStart" => activeTask = FindTask(tasks, last.active))
    /\ [][activeTask' # activeTask =>
            \/ last'.op = "dragStart"
            \/ last'.op = "dragEnd" /\ activeTask' = NoTask]_vars

\* a set session cleared by a drag-end that took an early return
C10_Witness ==
    /\ last.op = "dragEnd"
    /\ last.picked # NoTask
    /\ ~last.applied
    /\ last.over # NoOver
    /\ activeTask = NoTask

\* the batch issued by the last drag-end: the newest of the batches in flight
\* while no batch was issued since
IssuedBatches == {k \in 1..Len(inflight) : inflight[k].op = writes}

\* C11: the step that issues a batch is the drag-end step that applies the
\* optimistic update of the same operation to the in-memory list, so no batch
\* is in flight or committed before its update is in the list; and the update
\* is in the list while the commit has not settled.
C11_OptimisticBeforeWrite ==
    /\ [][Len(inflight') > Len(inflight) =>
            /\ last'.op = "dragEnd" /\ last'.applied
            /\ inflight' = Append(inflight, inflight'[Len(inflight')])
            /\ inflight'[Len(inflight')].op = writes'
            /\ tasks' # tasks
            /\ FilterColumn(tasks', TargetColumn(tasks, last'.over))
                 = inflight'[Len(inflight')].plan]_vars
    /\ [][remote' # remote => Len(inflight') < Len(inflight)]_vars
    /\ [](ReorderApplied /\ IssuedBatches # {} =>
            FilterColumn(tasks, LastTarget) = NewTasksWithOrder(LastPlan, LastTarget))

\* the list shows the reorder while its batch is in flight and the store
\* still holds the previous orders
C11_Witness ==
    /\ ReorderApplied
    /\ IssuedBatches # {}
    /\ tasks # last.tasks
    /\ SortByOrder(remote) = last.tasks
    /\ IdsOf(FilterColumn(tasks, LastTarget)) = IdsOf(LastPlan)

\* C12: the batch of an applied reorder holds a column update, for the active
\* task and to the target column, iff the active task changed column; an
\* order update to (i+1)*100 for the task at position i of the new sequence
\* iff its in-memory order was not (i+1)*100 or it is the active task; and
\* no update for a task outside the new sequence.
C12_BatchContents ==
    (ReorderApplied /\ IssuedBatches # {}) =>
        LET b == inflight[Len(inflight)]
        IN /\ b.op = writes
           /\ b.column = IF LastActive.column # LastTarget
                         THEN {<<last.active, LastTarget>>} ELSE {}
           /\ \A i \in 0..(Len(LastPlan) - 1) :
                  (<<LastPlan[i + 1].id, (i + 1) * 100>> \in b.order)
                      <=> \/ FindTask(last.tasks, LastPlan[i + 1].id).order # (i + 1) * 100
                          \/ LastPlan[i + 1].id = last.active
           /\ \A u \in b.order :
                  \E i \in 0..(Len(LastPlan) - 1) :
                      u = <<LastPlan[i + 1].id, (i + 1) * 100>>

\* the batch of a cross-column move that skips one task of the new sequence
\* and renumbers another
C12_Witness ==
    /\ ReorderApplied /\ IssuedBatches # {}
    /\ LET b == inflight[Len(inflight)]
       IN /\ \E k \in 1..Len(LastPlan) :
                 /\ LastPlan[k].id # last.active
                 /\ \A u \in b.order : u[1] # LastPlan[k].id
          /\ \E u \in b.order : u[1] # last.active
          /\ \E u \in b.order : u[1] = last.active
          /\ b.column # {}

\* the batch whose settling was the last step
LastBatch == last.inflight[1]

\* store holds every update of batch b
HoldsUpdates(store, b) ==
    /\ \A u \in b.column : \E d \in store : d.id = u[1] /\ d.column = u[2]
    /\ \A u \in b.order : \E d \in store : d.id = u[1] /\ d.order = u[2]

\* after differs from before in nothing that batch b does not update
OnlyUpdates(before, after, b) ==
    /\ DocIds(after) = DocIds(before)
    /\ \A d \in before : \A e \in after :
           d.id = e.id =>
               /\ (\A u \in b.column : u[1] # d.id) => e.column = d.column
               /\ (\A u \in b.order : u[1] # d.id) => e.order = d.order

\* C13: the remote store changes only by the commit of a batch, which leaves
\* every update of the batch in the store and nothing else changed; a failed
\* commit leaves the column and order of every task as they were.
C13_Atomicity ==
    [][/\ remote' # remote => last'.op = "commitSucceeds"
       /\ last'.op = "commitFails" => remote' = remote
       /\ last'.op = "commitSucceeds" =>
              /\ HoldsUpdates(remote', last'.inflight[1])
              /\ OnlyUpdates(remote, remote', last'.inflight[1])]_vars

\* a failed batch of two or more updates, none of which is in the store
C13_Witness ==
    /\ last.op = "commitFails"
    /\ Cardinality(LastBatch.order) >= 2
    /\ \A u \in LastBatch.order : \A d \in remote : d.id = u[1] => d.order # u[2]

\* C14: a failed commit records one notification "Failed to save new order"
\* of type error and nothing else: the in-memory list, the drag session and
\* the store stay as they are and the batch is not in flight again; batches
\* are issued by drag-ends only, so each drag-end has at most one attempt.
C14_CommitFailure ==
    /\ [][last'.op = "commitFails" =>
            /\ notifications' = Append(notifications,
                   [message |-> "Failed to save new order", type |-> "error"])
            /\ tasks' = tasks
            /\ activeTask' = activeTask /\ dragging' = dragging
            /\ Len(inflight') = Len(inflight) - 1
            /\ \A k \in 1..Len(inflight') : inflight'[k].op # last'.active]_vars
    /\ [][Len(inflight') > Len(inflight) =>
            last'.op = "dragEnd" /\ Len(inflight') = Len(inflight) + 1]_vars
    /\ [](\A j, k \in 1..Len(inflight) : j # k => inflight[j].op # inflight[k].op)
    /\ [](Len(notifications) + Len(inflight) <= writes)

\* the only batch failed: one notification, and the list still shows the
\* reorder that the store does not have
C14_Witness ==
    /\ last.op = "commitFails"
    /\ Len(notifications) = 1
    /\ inflight = <<>>
    /\ FilterColumn(tasks, last.tasks[1].column) = last.tasks
    /\ tasks # SortByOrder(remote)

\* ts lists the records of store, each once, by ascending order
ExactlyStoreAscending(ts, store) ==
    /\ Len(ts) = Cardinality(store)
    /\ {ts[k] : k \in 1..Len(ts)} = store
    /\ \A k \in 1..(Len(ts) - 1) : ts[k].order <= ts[k + 1].order

\* C15: after the delivery of a snapshot the in-memory list is exactly the
\* task records of the store by ascending order, whether or not a batch is
\* in flight, and whatever the list showed before.
C15_SnapshotWins == last.op = "snapshot" => ExactlyStoreAscending(tasks, remote)

\* a snapshot delivered before the commit of a batch in flight: the list no
\* longer shows the sequence of that batch's operation
C15_Witness ==
    /\ last.op = "snapshot"
    /\ inflight # <<>>
    /\ FilterColumn(tasks, inflight[1].plan[1].column) # inflight[1].plan
    /\ Len(tasks) = MaxTasks

\* the in-memory list and the store hold the same tasks with the same column
\* and order
AgreesWithRemote ==
    /\ Len(tasks) = Cardinality(remote)
    /\ {tasks[k] : k \in 1..Len(tasks)} = remote

\* C16: from every state, so from a failed commit and from the settling of
\* the last batch in flight, a state follows in which the in-memory list
\* agrees with the store on the column and order of every task, or in which
\* a reorder has just been applied: when no further reorder is applied, the
\* list comes to agree with the store.
C16_SelfHealing == []<>(AgreesWithRemote \/ ReorderApplied)

\* after a failed commit a snapshot has put the list back to the orders of
\* the store, which are those of the start
C16_Witness ==
    /\ last.op = "snapshot"
    /\ notifications # <<>>
    /\ inflight = <<>>
    /\ AgreesWithRemote
    /\ remote = OneColumnStore

\* C17: two reorders are applied, the second before the batch of the first
\* has settled, and both batches commit, the second before the first: the
\* store then holds every task of the sequence computed by the first
\* operation, whose batch landed last, with the order it computed.
C17_LastWriteWins ==
    (/\ last.op = "commitSucceeds"
     /\ last.active = 1
     /\ writes = 2
     /\ inflight = <<>>
     /\ notifications = <<>>)
    => \A k \in 1..Len(last.tasks) :
           \A d \in remote : d.id = last.tasks[k].id => d.order = last.tasks[k].order

\* the reorder of the drag-end (active, over) applied to the list ts: the
\* target column becomes the planner's sequence numbered 100, 200, ..., the
\* other tasks stay
Reordered(ts, active, over) ==
    SelectSeq(ts, LAMBDA t : t.column # TargetColumn(ts, over) /\ t.id # active)
        \o [k \in 1..Len(NewTasksInColumn(ts, active, over)) |->
               [id |-> NewTasksInColumn(ts, active, over)[k].id,
                column |-> TargetColumn(ts, over),
                order |-> k * 100]]

\* C18: a drag-end that applies a reorder while an earlier batch is in flight
\* plans on the in-memory list as it is, which holds the earlier optimistic
\* update unless a snapshot replaced it: the list becomes this reorder of
\* that list; and the settling of a batch, or a drag start, leaves the list
\* as it is, so the result does not depend on the commits.
C18_SecondDragOnFirstResult ==
    /\ [][(last'.op = "dragEnd" /\ last'.applied /\ inflight # <<>>) =>
            tasks' = Reordered(tasks, last'.active, last'.over)]_vars
    /\ [][last'.op \in {"commitSucceeds", "commitFails", "dragStart"} =>
            tasks' = tasks]_vars

\* [1, 2, 3]: 2 dropped on the column gives [1, 3, 2]; before that batch
\* settles 1 is dropped on 3, which gives [3, 1, 2] (on the list of the
\* store it would give [2, 3, 1])
C18_Witness ==
    /\ ReorderApplied
    /\ last.active = 1 /\ last.over = TaskOver(3)
    /\ Len(last.inflight) = 1
    /\ IdsOf(last.inflight[1].plan) = <<1, 3, 2>>
    /\ IdsOf(last.tasks) = <<1, 3, 2>>
    /\ IdsOf(SortByOrder(remote)) = <<1, 2, 3>>
    /\ tasks = << [id |-> 3, column |-> "Not Started", order |-> 100],
                  [id |-> 1, column |-> "Not Started", order |-> 200],
                  [id |-> 2, column |-> "Not Started", order |-> 300] >>

\* C19: a step changes the in-memory task list (the records and their
\* titles) only if it is the delivery of a snapshot or a drag-end that
\* applies a reorder, and the reorder leaves the titles: adding or editing a
\* task, requesting, cancelling or confirming a delete, the settling of any
\* write, a drag start and a drag-end that applies nothing leave the list.
C19_ListFrame ==
    [][/\ tasks' # tasks => \/ last'.op = "snapshot"
                            \/ last'.op = "dragEnd" /\ last'.applied
       /\ titles' # titles => last'.op = "snapshot"]_vars

\* a task was added to the store and the title of another was edited there:
\* the list, loaded before, holds neither
C19_Witness ==
    /\ tasks # <<>>
    /\ MaxTasks \in DocIds(remote)
    /\ IndexOfId(tasks, MaxTasks) = -1
    /\ \E k \in 1..Len(tasks) : remoteTitles[tasks[k].id] # titles[tasks[k].id]
    /\ adding = <<>> /\ editing = <<>>

C21_AddedOrderUnique ==
    last.op = "addSucceeds" =>
        \A d \in remote : \A e \in remote :
            (d.id = MaxTasks /\ e.id # MaxTasks /\ e.column = d.column)
                => e.order # d.order

\* C22: deleteTask(id) makes id the pending id and opens the dialog, and
\* touches neither the store nor the deletes in flight; a delete is issued
\* by confirmDeleteTask only, for the pending id, which only deleteTask sets
\* and only the end of a confirmed delete clears; cancelling closes the
\* dialog and issues nothing; a document leaves the store only when a delete
\* issued for it succeeds; and when a confirmed delete has succeeded or
\* failed the dialog is closed and the pending id is cleared.
C22_DeleteOnConfirm ==
    /\ [][last'.op = "deleteTask" =>
            /\ taskToDelete' = last'.active /\ isDeleteModalOpen'
            /\ deleting' = deleting /\ remote' = remote]_vars
    /\ [][deleting' # deleting /\ Len(deleting') >= Len(deleting) =>
            /\ last'.op = "confirmDelete"
            /\ taskToDelete # 0
            /\ deleting' = Append(deleting, taskToDelete)]_vars
    /\ [][taskToDelete' # taskToDelete =>
            \/ last'.op = "deleteTask"
            \/ last'.op \in {"deleteSucceeds", "deleteFails"} /\ taskToDelete' = 0]_vars
    /\ [][last'.op = "cancelDelete" =>
            ~isDeleteModalOpen' /\ deleting' = deleting /\ remote' = remote]_vars
    /\ [][DocIds(remote') # DocIds(remote) =>
            /\ last'.op = "deleteSucceeds"
            /\ \E k \in 1..Len(deleting) : deleting[k] = last'.active
            /\ remote' = {d \in remote : d.id # last'.active}]_vars
    /\ [](last.op \in {"deleteSucceeds", "deleteFails"} =>
            ~isDeleteModalOpen /\ taskToDelete = 0)

\* a confirmed delete has removed from the store a task the list still shows
C22_Witness ==
    /\ last.op = "deleteSucceeds"
    /\ last.active \notin DocIds(remote)
    /\ IndexOfId(tasks, last.active) >= 0
    /\ Cardinality(remote) = MaxTasks - 1
    /\ ~isDeleteModalOpen /\ taskToDelete = 0

\* ts holds the records of the store, each once
Agree(ts, store) ==
    /\ Len(ts) = Cardinality(store)
    /\ {ts[k] : k \in 1..Len(ts)} = store

\* C23: when the list agreed with the store before a drag-end that applied a
\* reorder and issued its batch, and that batch commits as the next write,
\* the store agrees with the optimistic list on the column and order of
\* every task, and a snapshot of it shows every column in the sequence the
\* list shows.
C23_SkipIsOptimisation ==
    [][(/\ ReorderApplied
        /\ Agree(last.tasks, remote)
        /\ Len(inflight) > Len(last.inflight)
        /\ last'.op = "commitSucceeds"
        /\ last'.active = inflight[Len(inflight)].op)
       => /\ Agree(tasks', remote')
          /\ \A c \in Columns :
                 IdsOf(FilterColumn(SortByOrder(remote'), c))
                     = IdsOf(FilterColumn(tasks', c))]_vars

\* the batch of a reorder in a column of three tasks has committed, it left
\* one of the three unwritten, and the store agrees with the list
C23_Witness ==
    /\ last.op = "commitSucceeds"
    /\ Agree(tasks, remote)
    /\ Len(last.tasks) = 3
    /\ Cardinality(LastBatch.order) = 2
    /\ LastBatch.column = {}

\* the tasks of the list before the last drag-end that are neither the
\* dragged task nor in the target column
Outside == SelectSeq(last.tasks, LAMBDA t : t.id # last.active /\ t.column # LastTarget)

\* C24: after an applied reorder every task that is neither the dragged task
\* nor of the target column is in the list once, with the column and order it
\* had, in the sequence these tasks had, and the batch issued by the drag-end
\* holds no update for it.
C24_ReorderFrame ==
    ReorderApplied =>
        /\ SelectSeq(tasks, LAMBDA t : t.id \in {Outside[k].id : k \in 1..Len(Outside)})
               = Outside
        /\ \A k \in IssuedBatches :
               Len(inflight) > Len(last.inflight) =>
                   BatchIds(inflight[k]) \cap {Outside[j].id : j \in 1..Len(Outside)} = {}

\* a cross-column move has left in the source column a single task whose
\* order stays 200, and its batch is in flight
C24_Witness ==
    /\ ReorderApplied
    /\ LastActive.column # LastTarget
    /\ Len(inflight) > Len(last.inflight)
    /\ Len(FilterColumn(tasks, LastActive.column)) = 1
    /\ FilterColumn(tasks, LastActive.column)[1].order = GAP + GAP

\* how many entries of ts have id i
Occurrences(ts, i) == Cardinality({k \in 1..Len(ts) : ts[k].id = i})

\* C25: a drag-end, applied or not, leaves every task id in the in-memory
\* list as many times as it was there, which is at most once, and leaves
\* the titles of the tasks as they were: the column and order of a task are
\* all it can change.
C25_MergeConservesTasks ==
    /\ [][last'.op = "dragEnd" =>
            /\ \A i \in Ids : Occurrences(tasks', i) = Occurrences(tasks, i)
            /\ titles' = titles]_vars
    /\ [](\A i \in Ids : Occurrences(tasks, i) <= 1)

\* a cross-column move out of a column of two into a column of one: the moved
\* task is in the list once, in its new column, with the two others
C25_Witness ==
    /\ ReorderApplied
    /\ LastActive.column # LastTarget
    /\ Len(FilterColumn(last.tasks, LastActive.column)) = 2
    /\ Len(FilterColumn(last.tasks, LastTarget)) = 1
    /\ Len(tasks) = 3
    /\ Occurrences(tasks, last.active) = 1
    /\ FindTask(tasks, last.active).column = LastTarget

\* C26: in every state, the tasks of each column stand in the in-memory list
\* by non-decreasing order value, so the list filtered by column, as the
\* columns render it and the planner takes it, is in order of the order
\* values.
C26_ColumnsAscending ==
    \A j, k \in 1..Len(tasks) :
        (j < k /\ tasks[j].column = tasks[k].column) => tasks[j].order <= tasks[k].order

\* after an applied reorder the list as a whole is not in order of the
\* order values, and a column of the list holds two tasks or more
C26_Witness ==
    /\ ReorderApplied
    /\ \E j, k \in 1..Len(tasks) : j < k /\ tasks[j].order > tasks[k].order
    /\ \E j, k \in 1..Len(tasks) : j < k /\ tasks[j].column = tasks[k].column

\* C27: the batch a drag-end issues updates documents of the active project
\* only: every task id in it is the id of a task of the store of the project
\* that is active when it is issued.
C27_BatchInActiveProject ==
    [][Len(inflight') > Len(inflight) =>
           BatchIds(inflight'[Len(inflight')]) \subseteq DocIds(remote)]_vars

\* of the last drag-end: the column the dragged task was in, as it was, and
\* the drop that takes the task back: on the task that followed it there,
\* on the column when it was the last
SourceColumn == FilterColumn(last.tasks, LastActive.column)

DropBack ==
    IF IndexOfId(SourceColumn, last.active) + 1 < Len(SourceColumn)
    THEN TaskOver(SourceColumn[IndexOfId(SourceColumn, last.active) + 2].id)
    ELSE ColumnOver(LastActive.column)

\* the list after the drag-end of the dragged task on DropBack
DraggedBack == OptimisticTasks(tasks, last.active, DropBack)

\* C28: after a drag-end that moved task T from column A to column B, the
\* drag-end of T on the task that followed it in A, or on column A when T was
\* the last of A, applies a reorder that leaves A and B with the sequences of
\* tasks they had before the first drag-end, A numbered 100, 200, ...
C28_RoundTrip ==
    (ReorderApplied /\ LastActive.column # LastTarget) =>
        /\ Applies(tasks, last.active, DropBack)
        /\ IdsOf(FilterColumn(DraggedBack, LastActive.column)) = IdsOf(SourceColumn)
        /\ IdsOf(FilterColumn(DraggedBack, LastTarget))
               = IdsOf(FilterColumn(last.tasks, LastTarget))
        /\ \A k \in 1..Len(SourceColumn) :
               FilterColumn(DraggedBack, LastActive.column)[k].order = k * 100

\* the first of two tasks of a column was moved to the head of a column of
\* one task: the drop back is on the task that followed it
C28_Witness ==
    /\ ReorderApplied
    /\ LastActive.column # LastTarget
    /\ Len(SourceColumn) = 2
    /\ IndexOfId(SourceColumn, last.active) = 0
    /\ DropBack.type = "task"
    /\ Len(FilterColumn(tasks, LastTarget)) = 2
    /\ FilterColumn(tasks, LastTarget)[1].id = last.active

====
